---------------------------- MODULE Spec2Model ----------------------------
(***************************************************************************)
(* The room state machine of the Rikiki card-game engine (src/game.py,     *)
(* GameRoom) together with the disconnect handler of the transport         *)
(* (src/main.py).  Every method of GameRoom is an operator from a room     *)
(* record to the outcome of the call (the room afterwards and what the     *)
(* call returned or raised); every action of the specification is one      *)
(* call of one method.                                                     *)
(***************************************************************************)
EXTENDS Integers, Sequences, FiniteSets, TLC

VARIABLES
    room,       \* the GameRoom of one room code: a record of its fields
    transport   \* the handlers of the room's connections and what they sent

vars == <<room, transport>>

-----------------------------------------------------------------------------
(* Bounds of the model *)

\* accepted (logged) intents explored per room
MaxLog == 4

\* accepted intents explored per room when the draw pile is played out
MaxDrawLog == 10

\* accepted intents explored per room when handlers interleave
MaxRaceLog == 7

\* the ids connections present, fresh ids named in their order of arrival;
\* with two seats the third id is a stranger to the room
JoinOrder == <<"p1", "p2", "p3">>
PlayerIds == {JoinOrder[i] : i \in 1..Len(JoinOrder)}

\* room seeds explored
Seeds == {0, 1}

\* the ranks and suits the modelled deck is built from (a sub-deck of the
\* real 13 x 4), in the enumeration order of Rank and Suit
RankSeq == <<"5", "J", "Q", "K">>
SuitSeq == <<"H", "S">>

-----------------------------------------------------------------------------
(* Program constants *)

GRID_SIZE == 4
CALLER_AUTO_LOSE_SCORE == 7
MAX_PLAYERS == 8
DECK_COPIES == 2

LOBBY == "lobby"
PLAYING == "playing"
LAST_ROUND == "last_round"
ENDED == "ended"

NoId == ""
NoCard == [id |-> 0, rank |-> "", suit |-> ""]
NoPending == [type |-> "none", player_id |-> NoId, card |-> NoCard,
              peeked_player_id |-> NoId, peeked_position |-> -1]

\* the messages of the ValueErrors the room raises
ErrGameStarted == "Game already started"
ErrRoomFull == "Room full"
ErrNeedPlayers == "Need at least 2 players"
ErrPlayerNotFound == "Player not found"
ErrNotPlaying == "Game not in playing state"
ErrNotYourTurn == "Not your turn"
ErrNoCards == "No cards left"
ErrNoDrawn == "No card drawn yet"
ErrInvalidPosition == "Invalid position"
ErrEmptySlot == "No card at position"
ErrNotJack == "Drawn card is not a Jack"
ErrNotQueen == "Drawn card is not a Queen"
ErrNotKing == "Drawn card is not a King"
ErrTargetNotFound == "Target player not found"
ErrSamePlayers == "Must swap between different players"
ErrQueenPlayerNotFound == "Player not found"
ErrInvalidPositionA == "Invalid position A"
ErrInvalidPositionB == "Invalid position B"
ErrMustPeek == "Must peek first with King"
ErrNotYourKing == "Not your king action"
ErrOtherNotFound == "Other player not found"
ErrSameAsPeeked == "Must swap with a different player"
ErrCannotCall == "Cannot call Rikiki now"

-----------------------------------------------------------------------------
(* Cards and the deck *)

NumCards == DECK_COPIES * Len(SuitSeq) * Len(RankSeq)

\* the deck before shuffling: for each copy, for each suit, for each rank
UnshuffledDeck ==
    [i \in 1..NumCards |->
        [id   |-> i,
         rank |-> RankSeq[((i - 1) % Len(RankSeq)) + 1],
         suit |-> SuitSeq[(((i - 1) \div Len(RankSeq)) % Len(SuitSeq)) + 1]]]

\* rng.shuffle under a seed: a permutation of the deck fixed by the seed
\* (the card at place 4q+m moves block q by s and rank m by 2q+3s+3)
SeededOrder(s) ==
    LET nr == Len(RankSeq)
        nb == NumCards \div nr
    IN  [i \in 1..NumCards |->
            LET q == (i - 1) \div nr
                m == (i - 1) % nr
            IN  nr * ((q + s) % nb) + ((m + 2 * q + 3 * s + 3) % nr) + 1]

build_deck(s) ==
    [i \in 1..NumCards |-> UnshuffledDeck[SeededOrder(s)[i]]]

AllCards == {UnshuffledDeck[i] : i \in 1..NumCards}

\* random.shuffle of a list: every order of its elements
Shuffles(seq) ==
    {[i \in 1..Len(seq) |-> seq[f[i]]] :
        f \in {g \in [1..Len(seq) -> 1..Len(seq)] :
                  \A a, b \in 1..Len(seq) : g[a] = g[b] => a = b}}

-----------------------------------------------------------------------------
(* The room and its players as records, and the outcome of a call *)

\* GameRoom.__init__
NewRoom(s) ==
    [players |-> <<>>, deck |-> <<>>, discard_pile |-> <<>>, state |-> LOBBY,
     turn_index |-> 0, rikiki_called_by |-> NoId,
     last_round_remaining |-> <<>>, action_log |-> <<>>,
     pending_special |-> NoPending, seed |-> s]

\* Player.__init__
NewPlayer(pid) ==
    [id |-> pid, hand |-> [i \in 1..GRID_SIZE |-> NoCard], connected |-> TRUE,
     called_rikiki |-> FALSE, done_last_turn |-> FALSE]

\* a call that raised: the room as the call left it, and the message
Raise(r, msg) == [room |-> r, error |-> msg, args |-> <<>>, success |-> FALSE]

\* a call that returned
Return(r, args, ok) == [room |-> r, error |-> "", args |-> args, success |-> ok]

\* GameRoom._log
Log(r, pid, action) ==
    [r EXCEPT !.action_log = Append(@, [player_id |-> pid, action |-> action])]

-----------------------------------------------------------------------------
(* Lookups *)

SeatIds(r) == {r.players[i].id : i \in 1..Len(r.players)}

\* the seat (1-based) of a player id, 0 when the id has no seat: get_player
RECURSIVE FirstSeat(_, _, _)
FirstSeat(ps, pid, i) ==
    IF i > Len(ps) THEN 0
    ELSE IF ps[i].id = pid THEN i
    ELSE FirstSeat(ps, pid, i + 1)

SeatOf(r, pid) == FirstSeat(r.players, pid, 1)

\* GameRoom.current_player, as a seat (0 when there is no player)
CurrentSeat(r) ==
    IF Len(r.players) = 0 THEN 0 ELSE (r.turn_index % Len(r.players)) + 1

CurrentId(r) == IF CurrentSeat(r) = 0 THEN NoId ELSE r.players[CurrentSeat(r)].id

\* a 0-based position of the code is a slot of a hand
InBounds(hand, position) == position >= 0 /\ position < Len(hand)

Slot(hand, position) == hand[position + 1]

SetSlot(r, seat, position, card) ==
    [r EXCEPT !.players[seat].hand[position + 1] = card]

RemoveFirst(seq, x) ==
    LET i == CHOOSE k \in 1..Len(seq) :
                 seq[k] = x /\ \A j \in 1..(k - 1) : seq[j] # x
    IN  SubSeq(seq, 1, i - 1) \o SubSeq(seq, i + 1, Len(seq))

InSeq(seq, x) == \E i \in 1..Len(seq) : seq[i] = x

-----------------------------------------------------------------------------
(* Turn validation, turn advancement, end of game *)

\* validate_turn without its check of whose turn it is
validate_turn_AnySeat(r, pid) ==
    IF SeatOf(r, pid) = 0 THEN ErrPlayerNotFound
    ELSE IF r.state \notin {PLAYING, LAST_ROUND} THEN ErrNotPlaying
    ELSE ""

\* GameRoom._validate_turn: the message it raises, "" when it returns
validate_turn(r, pid) ==
    IF SeatOf(r, pid) = 0 THEN ErrPlayerNotFound
    ELSE IF r.state \notin {PLAYING, LAST_ROUND} THEN ErrNotPlaying
    ELSE IF CurrentSeat(r) # 0 /\ CurrentId(r) # pid THEN ErrNotYourTurn
    ELSE ""

\* RANK_VALUES, over every rank of the enumeration
RANK_VALUES ==
    [rank \in {"A", "2", "3", "4", "5", "6", "7", "8", "9", "10", "J", "Q", "K"} |->
        CASE rank = "A" -> 1
          [] rank = "2" -> 2
          [] rank = "3" -> 3
          [] rank = "4" -> 4
          [] rank = "5" -> 5
          [] rank = "6" -> 6
          [] rank = "7" -> 7
          [] rank = "8" -> 8
          [] rank = "9" -> 9
          [] OTHER -> 10]

\* the flag build_deck gives a card
is_red_king(card) == card.rank = "K" /\ card.suit \in {"H", "D"}

\* Card.value
value(card) == IF is_red_king(card) THEN 0 ELSE RANK_VALUES[card.rank]

\* Player.score: the loop over the hand, from slot k on
RECURSIVE ScoreFrom(_, _)
ScoreFrom(hand, k) ==
    IF k > Len(hand) THEN 0
    ELSE (IF hand[k] # NoCard THEN value(hand[k]) ELSE 0) + ScoreFrom(hand, k + 1)

score(player) == ScoreFrom(player.hand, 1)

\* min(..., key=score) over the seats of keep, in seat order: the first of the
\* lowest, 0 when keep is empty
RECURSIVE MinSeat(_, _, _, _)
MinSeat(ps, keep, i, best) ==
    IF i > Len(ps) THEN best
    ELSE IF i \in keep /\ (best = 0 \/ score(ps[i]) < score(ps[best]))
    THEN MinSeat(ps, keep, i + 1, i)
    ELSE MinSeat(ps, keep, i + 1, best)

\* caller_auto_lose with the threshold itself losing
caller_auto_lose_AtThreshold(r) ==
    /\ r.rikiki_called_by # NoId
    /\ SeatOf(r, r.rikiki_called_by) # 0
    /\ score(r.players[SeatOf(r, r.rikiki_called_by)]) >= CALLER_AUTO_LOSE_SCORE

\* caller_auto_lose of end_game
caller_auto_lose(r) ==
    /\ r.rikiki_called_by # NoId
    /\ SeatOf(r, r.rikiki_called_by) # 0
    /\ score(r.players[SeatOf(r, r.rikiki_called_by)]) > CALLER_AUTO_LOSE_SCORE

\* the result end_game computes, logs and returns
end_game_result(r) ==
    LET n == Len(r.players)
        keep == IF caller_auto_lose(r)
                THEN {i \in 1..n : ~r.players[i].called_rikiki}
                ELSE 1..n
        winner == MinSeat(r.players, keep, 1, 0)
    IN  [scores |-> [i \in 1..n |->
                       [player_id |-> r.players[i].id,
                        score |-> score(r.players[i]),
                        called_rikiki |-> r.players[i].called_rikiki]],
         winner_id |-> IF winner = 0 THEN NoId ELSE r.players[winner].id,
         caller_id |-> r.rikiki_called_by,
         caller_auto_lose |-> caller_auto_lose(r)]

\* GameRoom.end_game; the game_ended entry keeps the result as its details
end_game(r) ==
    [r EXCEPT !.state = ENDED,
              !.action_log = Append(@, [player_id |-> "system",
                                        action |-> "game_ended",
                                        details |-> end_game_result(r)])]

\* the scan taking the next seat whether or not it is connected
ScanConnected_NextSeat(ps, ti, k) ==
    IF k = 0 THEN ti ELSE (ti + 1) % Len(ps)

\* the for loop of _advance_turn: at most k more steps from turn index ti
RECURSIVE ScanConnected(_, _, _)
ScanConnected(ps, ti, k) ==
    IF k = 0 THEN ti
    ELSE LET t == (ti + 1) % Len(ps)
         IN  IF ps[t + 1].connected THEN t ELSE ScanConnected(ps, t, k - 1)

\* the last-round bookkeeping of _advance_turn
RemoveCurrent(r) ==
    IF InSeq(r.last_round_remaining, CurrentId(r))
    THEN [r EXCEPT !.last_round_remaining = RemoveFirst(@, CurrentId(r))]
    ELSE r

\* _advance_turn running its scan before it looks at the last round
advance_turn_ScansFirst(r) ==
    LET r1 == IF r.state = LAST_ROUND THEN RemoveCurrent(r) ELSE r
        r2 == [r1 EXCEPT !.turn_index =
                  ScanConnected(r1.players, r1.turn_index, Len(r1.players))]
    IN  IF r.state = LAST_ROUND /\ r1.last_round_remaining = <<>>
        THEN end_game(r2)
        ELSE r2

\* GameRoom._advance_turn
advance_turn(r) ==
    LET r1 == IF r.state = LAST_ROUND THEN RemoveCurrent(r) ELSE r
    IN  IF r.state = LAST_ROUND /\ r1.last_round_remaining = <<>>
        THEN end_game(r1)
        ELSE [r1 EXCEPT !.turn_index =
                 ScanConnected(r1.players, r1.turn_index, Len(r1.players))]

-----------------------------------------------------------------------------
(* Room lifecycle *)

\* GameRoom.add_player
add_player(r, pid) ==
    IF r.state # LOBBY THEN Raise(r, ErrGameStarted)
    ELSE IF Len(r.players) >= MAX_PLAYERS THEN Raise(r, ErrRoomFull)
    ELSE IF SeatOf(r, pid) # 0
    THEN Return([r EXCEPT !.players[SeatOf(r, pid)].connected = TRUE], <<>>, TRUE)
    ELSE Return([r EXCEPT !.players = Append(@, NewPlayer(pid))], <<>>, TRUE)

\* the deal handing every seat the top GRID_SIZE cards, popping none
DealtHand_NoPop(d, i) ==
    [k \in 1..GRID_SIZE |->
        LET at == Len(d) - (k - 1)
        IN  IF at >= 1 THEN d[at] ELSE NoCard]

\* the deal of start_game: seat i pops GRID_SIZE cards, None once the deck is empty
DealtHand(d, i) ==
    [k \in 1..GRID_SIZE |->
        LET at == Len(d) - GRID_SIZE * (i - 1) - (k - 1)
        IN  IF at >= 1 THEN d[at] ELSE NoCard]

DeckAfterDeal(d, n) ==
    IF Len(d) > GRID_SIZE * n THEN SubSeq(d, 1, Len(d) - GRID_SIZE * n) ELSE <<>>

\* GameRoom.start_game
start_game(r) ==
    IF Len(r.players) < 2 THEN Raise(r, ErrNeedPlayers)
    ELSE
      LET d == build_deck(r.seed)
          r1 == [r EXCEPT
                   !.deck = DeckAfterDeal(d, Len(r.players)),
                   !.discard_pile = <<>>,
                   !.state = PLAYING,
                   !.turn_index = 0,
                   !.rikiki_called_by = NoId,
                   !.pending_special = NoPending,
                   !.players = [i \in 1..Len(r.players) |->
                                  [r.players[i] EXCEPT
                                     !.hand = DealtHand(d, i),
                                     !.called_rikiki = FALSE,
                                     !.done_last_turn = FALSE]]]
      IN  Return(Log(r1, r.players[1].id, "game_started"), <<>>, TRUE)

\* websocket_endpoint on WebSocketDisconnect
disconnect(r, pid) ==
    IF SeatOf(r, pid) # 0
    THEN [r EXCEPT !.players[SeatOf(r, pid)].connected = FALSE]
    ELSE r

-----------------------------------------------------------------------------
(* The playable intents *)

HasDrawn(r) == r.pending_special.type = "drawn"

Discard(r, cards) == [r EXCEPT !.discard_pile = @ \o cards]

ClearPending(r) == [r EXCEPT !.pending_special = NoPending]

\* the reshuffle leaving the discard pile as it was
Reshuffled_KeepsDiscard(r, shuffled) ==
    IF r.deck = <<>> THEN [r EXCEPT !.deck = shuffled] ELSE r

\* the deck a draw pops from: the deck, or the reshuffled discard pile
Reshuffled(r, shuffled) ==
    IF r.deck = <<>>
    THEN [r EXCEPT !.deck = shuffled, !.discard_pile = <<>>]
    ELSE r

\* the pending action a draw stores
DrawnPending(pid, card) ==
    [type |-> "drawn", player_id |-> pid, card |-> card,
     peeked_player_id |-> NoId, peeked_position |-> -1]

\* GameRoom.draw_card; shuffled is the order random.shuffle gives the discard pile
draw_card(r, pid, shuffled) ==
    LET refusal == validate_turn(r, pid) IN
    IF refusal # "" THEN Raise(r, refusal)
    ELSE IF r.deck = <<>> /\ r.discard_pile = <<>> THEN Raise(r, ErrNoCards)
    ELSE
      LET r1 == Reshuffled(r, shuffled)
          card == r1.deck[Len(r1.deck)]
          r2 == [r1 EXCEPT !.deck = SubSeq(@, 1, Len(@) - 1)]
          r3 == Log(r2, pid, "draw_card")
      IN  Return([r3 EXCEPT !.pending_special = DrawnPending(pid, card)],
                 <<>>, TRUE)

\* the successful branch discarding the drawn card alone
DiscardMatch_OnlyDrawn(r, seat, position) ==
    ClearPending(SetSlot(Discard(r, <<r.pending_special.card>>),
                         seat, position, NoCard))

\* the successful branch of attempt_discard
DiscardMatch(r, seat, position) ==
    LET drawn == r.pending_special.card
        hand_card == Slot(r.players[seat].hand, position)
    IN  ClearPending(SetSlot(Discard(r, <<drawn, hand_card>>),
                             seat, position, NoCard))

\* the failed branch ending the turn
DiscardFail_EndsTurn(r, pid) == advance_turn(Log(r, pid, "discard_fail"))

\* the failed branch of attempt_discard: only the log entry
DiscardFail(r, pid) == Log(r, pid, "discard_fail")

\* GameRoom.attempt_discard
attempt_discard(r, pid, position) ==
    LET refusal == validate_turn(r, pid) IN
    IF refusal # "" THEN Raise(r, refusal)
    ELSE IF ~HasDrawn(r) THEN Raise(r, ErrNoDrawn)
    ELSE
      LET seat == SeatOf(r, pid)
          hand == r.players[seat].hand
      IN  IF ~InBounds(hand, position) THEN Raise(r, ErrInvalidPosition)
          ELSE IF Slot(hand, position) = NoCard THEN Raise(r, ErrEmptySlot)
          ELSE IF r.pending_special.card.rank = Slot(hand, position).rank
          THEN Return(advance_turn(Log(DiscardMatch(r, seat, position),
                                       pid, "discard_success")),
                      <<position>>, TRUE)
          ELSE Return(DiscardFail(r, pid), <<position>>, FALSE)

\* the exchange reading the slot after it was overwritten
ReplaceSlot_ReadsAfterWrite(r, seat, position) ==
    LET r1 == SetSlot(r, seat, position, r.pending_special.card)
    IN  ClearPending(Discard(r1, <<Slot(r1.players[seat].hand, position)>>))

\* the exchange of replace_card
ReplaceSlot(r, seat, position) ==
    LET current_card == Slot(r.players[seat].hand, position)
    IN  ClearPending(Discard(SetSlot(r, seat, position, r.pending_special.card),
                             <<current_card>>))

\* GameRoom.replace_card
replace_card(r, pid, position) ==
    LET refusal == validate_turn(r, pid) IN
    IF refusal # "" THEN Raise(r, refusal)
    ELSE IF ~HasDrawn(r) THEN Raise(r, ErrNoDrawn)
    ELSE
      LET seat == SeatOf(r, pid)
          hand == r.players[seat].hand
      IN  IF ~InBounds(hand, position) THEN Raise(r, ErrInvalidPosition)
          ELSE IF Slot(hand, position) = NoCard THEN Raise(r, ErrEmptySlot)
          ELSE Return(advance_turn(Log(ReplaceSlot(r, seat, position),
                                       pid, "replace_card")),
                      <<position>>, TRUE)

\* the drawn card goes to the discard pile and nothing is pending any more
DiscardDrawn(r) ==
    ClearPending(Discard(r, <<r.pending_special.card>>))

\* keep_card with KEEP_ADDS_TO_HAND = True: the hand grows by the drawn card
KeepEffect_AddsToHand(r, seat) ==
    ClearPending([r EXCEPT !.players[seat].hand = Append(@, r.pending_special.card)])

\* keep_card with KEEP_ADDS_TO_HAND = False: the drawn card is discarded
KeepEffect(r, seat) == DiscardDrawn(r)

\* GameRoom.keep_card
keep_card(r, pid) ==
    LET refusal == validate_turn(r, pid) IN
    IF refusal # "" THEN Raise(r, refusal)
    ELSE IF ~HasDrawn(r) THEN Raise(r, ErrNoDrawn)
    ELSE Return(advance_turn(Log(KeepEffect(r, SeatOf(r, pid)), pid, "keep_card")),
                <<>>, TRUE)

\* the jack showing a slot of the acting player's own hand
peeked_card_OwnHand(r, target, position) ==
    Slot(r.players[CurrentSeat(r)].hand, position)

\* peeked_card of use_jack: the content of the targeted slot
peeked_card(r, target, position) ==
    Slot(r.players[SeatOf(r, target)].hand, position)

\* GameRoom.use_jack; it returns the peeked slot, the target and the position
use_jack(r, pid, target, position) ==
    LET refusal == validate_turn(r, pid) IN
    IF refusal # "" THEN Raise(r, refusal)
    ELSE IF ~HasDrawn(r) THEN Raise(r, ErrNoDrawn)
    ELSE IF r.pending_special.card.rank # "J" THEN Raise(r, ErrNotJack)
    ELSE IF SeatOf(r, target) = 0 THEN Raise(r, ErrTargetNotFound)
    ELSE IF ~InBounds(r.players[SeatOf(r, target)].hand, position)
    THEN Raise(r, ErrInvalidPosition)
    ELSE Return(advance_turn(Log(DiscardDrawn(r), pid, "use_jack")),
                <<peeked_card(r, target, position), target, position>>, TRUE)

\* the exchange done as two assignments in a row, the second reading the first
SwapSlots_Overwrites(r, seat_a, pos_a, seat_b, pos_b) ==
    LET r1 == SetSlot(r, seat_a, pos_a, Slot(r.players[seat_b].hand, pos_b))
    IN  SetSlot(r1, seat_b, pos_b, Slot(r1.players[seat_a].hand, pos_a))

\* the exchange of two slots (use_queen, use_king_swap)
SwapSlots(r, seat_a, pos_a, seat_b, pos_b) ==
    LET card_a == Slot(r.players[seat_a].hand, pos_a)
        card_b == Slot(r.players[seat_b].hand, pos_b)
    IN  SetSlot(SetSlot(r, seat_a, pos_a, card_b), seat_b, pos_b, card_a)

\* GameRoom.use_queen
use_queen(r, pid, player_a, pos_a, player_b, pos_b) ==
    LET refusal == validate_turn(r, pid) IN
    IF refusal # "" THEN Raise(r, refusal)
    ELSE IF ~HasDrawn(r) THEN Raise(r, ErrNoDrawn)
    ELSE IF r.pending_special.card.rank # "Q" THEN Raise(r, ErrNotQueen)
    ELSE IF player_a = player_b THEN Raise(r, ErrSamePlayers)
    ELSE IF SeatOf(r, player_a) = 0 \/ SeatOf(r, player_b) = 0
    THEN Raise(r, ErrQueenPlayerNotFound)
    ELSE IF ~InBounds(r.players[SeatOf(r, player_a)].hand, pos_a)
    THEN Raise(r, ErrInvalidPositionA)
    ELSE IF ~InBounds(r.players[SeatOf(r, player_b)].hand, pos_b)
    THEN Raise(r, ErrInvalidPositionB)
    ELSE
      LET r1 == SwapSlots(r, SeatOf(r, player_a), pos_a, SeatOf(r, player_b), pos_b)
      IN  Return(advance_turn(Log(DiscardDrawn(r1), pid, "use_queen")),
                 <<player_a, pos_a, player_b, pos_b>>, TRUE)

\* the pending action recording the peeker where the peeked player belongs
KingPeekPending_PeekerAsTarget(pid, card, target, position) ==
    [type |-> "king_peek", player_id |-> pid, card |-> card,
     peeked_player_id |-> pid, peeked_position |-> position]

\* the pending action use_king_peek stores
KingPeekPending(pid, card, target, position) ==
    [type |-> "king_peek", player_id |-> pid, card |-> card,
     peeked_player_id |-> target, peeked_position |-> position]

\* GameRoom.use_king_peek
use_king_peek(r, pid, target, position) ==
    LET refusal == validate_turn(r, pid) IN
    IF refusal # "" THEN Raise(r, refusal)
    ELSE IF ~HasDrawn(r) THEN Raise(r, ErrNoDrawn)
    ELSE IF r.pending_special.card.rank # "K" THEN Raise(r, ErrNotKing)
    ELSE IF SeatOf(r, target) = 0 THEN Raise(r, ErrTargetNotFound)
    ELSE IF ~InBounds(r.players[SeatOf(r, target)].hand, position)
    THEN Raise(r, ErrInvalidPosition)
    ELSE
      LET r1 == [r EXCEPT !.pending_special =
                    KingPeekPending(pid, r.pending_special.card, target, position)]
      IN  Return(Log(r1, pid, "king_peek"), <<target, position>>, TRUE)

\* use_king_swap clearing the pending action before it validates the target
use_king_swap_ClearsFirst(r, pid, other, other_position) ==
    LET refusal == validate_turn(r, pid) IN
    IF refusal # "" THEN Raise(r, refusal)
    ELSE IF r.pending_special.type # "king_peek" THEN Raise(r, ErrMustPeek)
    ELSE IF r.pending_special.player_id # pid THEN Raise(r, ErrNotYourKing)
    ELSE IF SeatOf(r, other) = 0 THEN Raise(ClearPending(r), ErrOtherNotFound)
    ELSE IF other = r.pending_special.peeked_player_id
    THEN Raise(ClearPending(r), ErrSameAsPeeked)
    ELSE IF ~InBounds(r.players[SeatOf(r, other)].hand, other_position)
    THEN Raise(ClearPending(r), ErrInvalidPosition)
    ELSE
      LET ps == r.pending_special
          r1 == SwapSlots(r, SeatOf(r, ps.peeked_player_id), ps.peeked_position,
                          SeatOf(r, other), other_position)
      IN  Return(advance_turn(Log(DiscardDrawn(r1), pid, "king_swap")),
                 <<other, other_position>>, TRUE)

\* GameRoom.use_king_swap
use_king_swap(r, pid, other, other_position) ==
    LET refusal == validate_turn(r, pid) IN
    IF refusal # "" THEN Raise(r, refusal)
    ELSE IF r.pending_special.type # "king_peek" THEN Raise(r, ErrMustPeek)
    ELSE IF r.pending_special.player_id # pid THEN Raise(r, ErrNotYourKing)
    ELSE IF SeatOf(r, other) = 0 THEN Raise(r, ErrOtherNotFound)
    ELSE IF other = r.pending_special.peeked_player_id
    THEN Raise(r, ErrSameAsPeeked)
    ELSE IF ~InBounds(r.players[SeatOf(r, other)].hand, other_position)
    THEN Raise(r, ErrInvalidPosition)
    ELSE
      LET ps == r.pending_special
          r1 == SwapSlots(r, SeatOf(r, ps.peeked_player_id), ps.peeked_position,
                          SeatOf(r, other), other_position)
      IN  Return(advance_turn(Log(DiscardDrawn(r1), pid, "king_swap")),
                 <<other, other_position>>, TRUE)

\* the last-round list starting at the caller's own seat
LastRoundFor_FromCaller(ps, idx) ==
    [i \in 1..(Len(ps) - 1) |-> ps[((idx + i - 1) % Len(ps)) + 1].id]

\* the ids call_rikiki owes a last turn: the n-1 seats after seat idx (0-based)
LastRoundFor(ps, idx) ==
    [i \in 1..(Len(ps) - 1) |-> ps[((idx + i) % Len(ps)) + 1].id]

\* GameRoom.call_rikiki
call_rikiki(r, pid) ==
    LET refusal == validate_turn(r, pid) IN
    IF refusal # "" THEN Raise(r, refusal)
    ELSE IF r.state # PLAYING THEN Raise(r, ErrCannotCall)
    ELSE
      LET seat == SeatOf(r, pid)
          r1 == [r EXCEPT
                   !.rikiki_called_by = pid,
                   !.players[seat].called_rikiki = TRUE,
                   !.state = LAST_ROUND,
                   !.last_round_remaining = LastRoundFor(r.players, seat - 1),
                   !.players[seat].done_last_turn = TRUE]
      IN  Return(advance_turn(Log(r1, pid, "call_rikiki")), <<>>, TRUE)

-----------------------------------------------------------------------------
(* The specification: one action per call.  A call that raises leaves the    *)
(* room as the operator says it left it (a stuttering step when unchanged). *)

\* a connection's handler between two messages: handle_message is not running
Idle == [pc |-> "idle", end_data |-> <<>>, sent_to |-> 0]

\* no handler is running and no game_end message was sent
NoTraffic == [handler |-> [c \in PlayerIds |-> Idle], game_end |-> {}]

\* the positions a client may send: two slots and both ends out of bounds
Positions == {-1, 0, 1, GRID_SIZE}

\* the positions a queen swap is sent with, on either side: a slot, and one
\* past the last slot
QueenPositions == {0, GRID_SIZE}

CanLog == Len(room.action_log) < MaxLog

Init ==
    /\ transport = NoTraffic
    /\ \E s \in Seeds : room = NewRoom(s)

\* a join presents the id of a seat (a reconnect) or the next fresh id
JoinIds ==
    SeatIds(room) \cup (IF Len(room.players) < Len(JoinOrder)
                        THEN {JoinOrder[Len(room.players) + 1]} ELSE {})

AddPlayer ==
    /\ UNCHANGED transport
    /\ \E pid \in JoinIds : room' = add_player(room, pid).room

StartGame ==
    /\ UNCHANGED transport
    /\ CanLog /\ room' = start_game(room).room

Disconnect ==
    /\ UNCHANGED transport
    /\ \E pid \in PlayerIds : room' = disconnect(room, pid)

\* the callers _validate_turn lets through; any other call raises, and leaves
\* the room as it is
Callers == {pid \in PlayerIds : validate_turn(room, pid) = ""}

DrawCard ==
    /\ UNCHANGED transport
    /\ CanLog
    /\ \E pid \in Callers :
       \E shuffled \in (IF room.deck = <<>> THEN Shuffles(room.discard_pile)
                        ELSE {<<>>}) :
           room' = draw_card(room, pid, shuffled).room

AttemptDiscard ==
    /\ UNCHANGED transport
    /\ CanLog
    /\ \E pid \in Callers, position \in Positions :
           room' = attempt_discard(room, pid, position).room

ReplaceCard ==
    /\ UNCHANGED transport
    /\ CanLog
    /\ \E pid \in Callers, position \in Positions :
           room' = replace_card(room, pid, position).room

KeepCard ==
    /\ UNCHANGED transport
    /\ CanLog /\ \E pid \in Callers : room' = keep_card(room, pid).room

UseJack ==
    /\ UNCHANGED transport
    /\ CanLog
    /\ \E pid \in Callers, target \in PlayerIds, position \in Positions :
           room' = use_jack(room, pid, target, position).room

UseQueen ==
    /\ UNCHANGED transport
    /\ CanLog
    /\ \E pid \in Callers, a \in PlayerIds, b \in PlayerIds,
          pos_a \in QueenPositions, pos_b \in QueenPositions :
           room' = use_queen(room, pid, a, pos_a, b, pos_b).room

UseKingPeek ==
    /\ UNCHANGED transport
    /\ CanLog
    /\ \E pid \in Callers, target \in PlayerIds, position \in Positions :
           room' = use_king_peek(room, pid, target, position).room

UseKingSwap ==
    /\ UNCHANGED transport
    /\ CanLog
    /\ \E pid \in Callers, other \in PlayerIds, position \in Positions :
           room' = use_king_swap(room, pid, other, position).room

CallRikiki ==
    /\ UNCHANGED transport
    /\ CanLog /\ \E pid \in Callers : room' = call_rikiki(room, pid).room

Next ==
    \/ AddPlayer
    \/ StartGame
    \/ Disconnect
    \/ DrawCard
    \/ AttemptDiscard
    \/ ReplaceCard
    \/ KeepCard
    \/ UseJack
    \/ UseQueen
    \/ UseKingPeek
    \/ UseKingSwap
    \/ CallRikiki

Spec == Init /\ [][Next]_vars

-----------------------------------------------------------------------------
(* end_game on its own, called as the tests of test_game.py call it: on a    *)
(* started room whose hands and caller were set by hand.                    *)

\* the hands tried: a seven, a red king or nothing in the first slot, an ace, a
\* black king or nothing in the second, nothing in the others
ScoreHands ==
    {<<a, b, NoCard, NoCard>> :
        a \in {[id |-> 101, rank |-> "7", suit |-> "S"],
               [id |-> 102, rank |-> "K", suit |-> "H"], NoCard},
        b \in {[id |-> 103, rank |-> "A", suit |-> "S"],
               [id |-> 104, rank |-> "K", suit |-> "S"], NoCard}}

\* a started room of n seats with the hands hs, seat c having called (0: nobody)
TestRoom(n, hs, c) ==
    LET lobby == [NewRoom(0) EXCEPT
                    !.players = [i \in 1..n |-> NewPlayer(JoinOrder[i])]]
        r0 == start_game(lobby).room
    IN  [r0 EXCEPT
           !.players = [i \in 1..n |->
                          [r0.players[i] EXCEPT !.hand = hs[i],
                                                !.called_rikiki = (i = c)]],
           !.rikiki_called_by = IF c = 0 THEN NoId ELSE r0.players[c].id]

InitEnd ==
    /\ transport = NoTraffic
    /\ \E n \in 2..Len(JoinOrder) :
           \E hs \in [1..n -> ScoreHands], c \in 0..n : room = TestRoom(n, hs, c)

EndGame ==
    /\ UNCHANGED transport
    /\ room.state # ENDED /\ room' = end_game(room)

NextEnd == EndGame

SpecEnd == InitEnd /\ [][NextEnd]_vars

-----------------------------------------------------------------------------
(* The lobby up to a full room: joins, dropped connections, the start.      *)

\* the ids that join, in their order of arrival: one more than the room seats
LobbyOrder == <<"p1", "p2", "p3", "p4", "p5", "p6", "p7", "p8", "p9">>
LobbyIds == {LobbyOrder[i] : i \in 1..Len(LobbyOrder)}

InitLobby ==
    /\ transport = NoTraffic
    /\ room = NewRoom(0)

\* a join presents the id of a seat or the next fresh id
JoinLobby ==
    /\ UNCHANGED transport
    /\ \E pid \in SeatIds(room) \cup (IF Len(room.players) < Len(LobbyOrder)
                                      THEN {LobbyOrder[Len(room.players) + 1]} ELSE {}) :
           room' = add_player(room, pid).room

DropLobby ==
    /\ UNCHANGED transport
    /\ \E pid \in SeatIds(room) : room' = disconnect(room, pid)

StartLobby ==
    /\ UNCHANGED transport
    /\ room.state = LOBBY /\ room' = start_game(room).room

NextLobby == JoinLobby \/ DropLobby \/ StartLobby

SpecLobby == InitLobby /\ [][NextLobby]_vars

-----------------------------------------------------------------------------
(* The draw pile played out: a started room of three seats, whose deck holds *)
(* four cards after the deal, with draws, keeps and replacements until the   *)
(* deck is empty and the discard pile is reshuffled into it.                 *)

CanLogDraw == Len(room.action_log) < MaxDrawLog

\* a room of n seats, just started
StartedRoom(s, n) ==
    start_game([NewRoom(s) EXCEPT
                  !.players = [i \in 1..n |-> NewPlayer(JoinOrder[i])]]).room

InitDraw ==
    /\ transport = NoTraffic
    /\ \E s \in Seeds : room = StartedRoom(s, Len(JoinOrder))

DrawPile ==
    /\ UNCHANGED transport
    /\ CanLogDraw
    /\ \E pid \in Callers :
       \E shuffled \in (IF room.deck = <<>> THEN Shuffles(room.discard_pile)
                        ELSE {<<>>}) :
           room' = draw_card(room, pid, shuffled).room

KeepPile ==
    /\ UNCHANGED transport
    /\ CanLogDraw /\ \E pid \in Callers : room' = keep_card(room, pid).room

ReplacePile ==
    /\ UNCHANGED transport
    /\ CanLogDraw /\ \E pid \in Callers : room' = replace_card(room, pid, 0).room

NextDraw == DrawPile \/ KeepPile \/ ReplacePile

SpecDraw == InitDraw /\ [][NextDraw]_vars

-----------------------------------------------------------------------------
(* Play without end: a started room of three seats in which the current     *)
(* player draws when nothing is pending and keeps when a card is, any        *)
(* current player may call rikiki before drawing, and the connection of any  *)
(* seat but the current one may drop.  No operation reads the action log but *)
(* for its last entry, so the log is kept to that entry and the rooms stay   *)
(* finitely many.  The fairness says the current player does not stop        *)
(* playing: it draws, and it resolves the card it drew.                      *)

\* the room with its action log cut to the last entry
Forget(r) ==
    [r EXCEPT !.action_log = IF @ = <<>> THEN <<>> ELSE <<@[Len(@)]>>]

InitLive ==
    /\ transport = NoTraffic
    /\ room = Forget(StartedRoom(0, Len(JoinOrder)))

DropLive ==
    /\ UNCHANGED transport
    /\ \E pid \in SeatIds(room) :
           /\ room.players[SeatOf(room, pid)].connected
           /\ pid # CurrentId(room)
           /\ room' = disconnect(room, pid)

DrawLive ==
    /\ UNCHANGED transport
    /\ room.pending_special.type = "none"
    /\ \E pid \in Callers :
       \E shuffled \in (IF room.deck = <<>> THEN Shuffles(room.discard_pile)
                        ELSE {<<>>}) :
           room' = Forget(draw_card(room, pid, shuffled).room)

KeepLive ==
    /\ UNCHANGED transport
    /\ room.pending_special.type = "drawn"
    /\ \E pid \in Callers : room' = Forget(keep_card(room, pid).room)

CallLive ==
    /\ UNCHANGED transport
    /\ room.pending_special.type = "none"
    /\ room.state = PLAYING
    /\ \E pid \in Callers : room' = Forget(call_rikiki(room, pid).room)

NextLive == DropLive \/ DrawLive \/ KeepLive \/ CallLive

SpecLive ==
    InitLive /\ [][NextLive]_vars /\ WF_vars(DrawLive) /\ WF_vars(KeepLive)

-----------------------------------------------------------------------------
(* The transport: handle_message of main.py routes a client message to the  *)
(* room operation its action names.                                         *)

ErrUnknownAction == "Unknown action"

\* the payload of a client message, every field the handler reads
Payload(position, target, player_a, pos_a, player_b, pos_b) ==
    [position |-> position, target_player_id |-> target,
     player_a_id |-> player_a, pos_a |-> pos_a,
     player_b_id |-> player_b, pos_b |-> pos_b,
     other_player_id |-> target, other_position |-> position]

\* the if/elif chain of handle_message; an action outside it is answered with
\* an error and reaches no room operation
handle_message(r, pid, action, payload, shuffled) ==
    IF action = "start_game" THEN start_game(r)
    ELSE IF action = "draw_card" THEN draw_card(r, pid, shuffled)
    ELSE IF action = "attempt_discard"
    THEN attempt_discard(r, pid, payload.position)
    ELSE IF action = "keep_card" THEN keep_card(r, pid)
    ELSE IF action = "use_jack"
    THEN use_jack(r, pid, payload.target_player_id, payload.position)
    ELSE IF action = "use_queen"
    THEN use_queen(r, pid, payload.player_a_id, payload.pos_a,
                   payload.player_b_id, payload.pos_b)
    ELSE IF action = "use_king_peek"
    THEN use_king_peek(r, pid, payload.target_player_id, payload.position)
    ELSE IF action = "use_king_swap"
    THEN use_king_swap(r, pid, payload.other_player_id, payload.other_position)
    ELSE IF action = "call_rikiki" THEN call_rikiki(r, pid)
    ELSE Raise(r, ErrUnknownAction)

\* the end_data the handler reads: the details of the last log entry, which
\* are an end_game result when that entry is game_ended
EndData(r) ==
    IF r.action_log # <<>> /\ r.action_log[Len(r.action_log)].action = "game_ended"
    THEN <<r.action_log[Len(r.action_log)].details>>
    ELSE <<>>

\* the messages the connections send while a game ends: intents, start_game
\* and an action the handler does not know
RaceMessages == {"draw_card", "keep_card", "call_rikiki", "start_game", "bogus"}

NoPayload == Payload(0, NoId, NoId, 0, NoId, 0)

CanLogRace == Len(room.action_log) < MaxRaceLog

\* a game one keep away from its end: two seats, p1 has called rikiki and p2,
\* the seat owed the last turn, has drawn
InitRace ==
    /\ transport = NoTraffic
    /\ \E s \in Seeds :
           room = draw_card(call_rikiki(StartedRoom(s, 2), "p1").room,
                            "p2", <<>>).room

\* handle_message of connection c from its start to the first await after the
\* dispatch: the room operation has run.  An operation that raised is answered
\* with an error and the handler returns; otherwise the handler is suspended
\* in a send, the end-of-game check still ahead
HandleMessage ==
    \E c \in SeatIds(room), action \in RaceMessages :
        LET out == handle_message(room, c, action, NoPayload, <<>>) IN
        /\ CanLogRace
        /\ transport.handler[c].pc = "idle"
        /\ room' = out.room
        /\ transport' =
              IF out.error = "" \/ out.error = ErrUnknownAction
              THEN [transport EXCEPT !.handler[c].pc = "awaiting"]
              ELSE transport

\* the handler resumes and checks whether the game ended
EndCheck ==
    \E c \in SeatIds(room) :
        /\ transport.handler[c].pc = "awaiting"
        /\ UNCHANGED room
        /\ transport' =
              IF room.state = ENDED
              THEN [transport EXCEPT !.handler[c] =
                      [pc |-> "sending", end_data |-> EndData(room), sent_to |-> 0]]
              ELSE [transport EXCEPT !.handler[c] = Idle]

\* one pass of the loop over room.players: game_end goes to the next seat if
\* it has a socket, and the handler is suspended in the send
SendGameEnd ==
    \E c \in SeatIds(room) :
        LET h == transport.handler[c]
            i == h.sent_to + 1
            msg == [to |-> room.players[i].id, data |-> h.end_data]
        IN  /\ h.pc = "sending"
            /\ UNCHANGED room
            /\ transport' =
                  [transport EXCEPT
                     !.game_end = IF room.players[i].connected
                                  THEN @ \cup {msg} ELSE @,
                     !.handler[c] = IF i = Len(room.players) THEN Idle
                                    ELSE [h EXCEPT !.sent_to = i]]

NextRace == HandleMessage \/ EndCheck \/ SendGameEnd

SpecRace == InitRace /\ [][NextRace]_vars

-----------------------------------------------------------------------------
(* What the claims speak of *)

InPlay(r) == r.state \in {PLAYING, LAST_ROUND}

\* pid is the seat the turn index points at, in a phase that accepts intents
IsCurrent(r, pid) ==
    /\ InPlay(r)
    /\ \E i \in 1..Len(r.players) :
          r.players[i].id = pid /\ i = (r.turn_index % Len(r.players)) + 1

ValidSlot(position) == position \in 0..(GRID_SIZE - 1)

HandOf(r, pid) == r.players[SeatOf(r, pid)].hand

Hands(r) == [i \in 1..Len(r.players) |-> r.players[i].hand]

Last(seq) == seq[Len(seq)]

Logged(r, action) ==
    \E i \in 1..Len(r.action_log) : r.action_log[i].action = action

\* the last intent the room accepted (the entry before a closing game_ended)
LastAction(r) ==
    IF r.action_log = <<>> THEN ""
    ELSE IF Last(r.action_log).action = "game_ended" /\ Len(r.action_log) > 1
    THEN r.action_log[Len(r.action_log) - 1].action
    ELSE Last(r.action_log).action

\* the turn index of the first connected seat after the current one in cyclic
\* seat order; the current turn index when no other seat is connected
NextConnected(r) ==
    LET n == Len(r.players)
        ahead == {k \in 1..n : r.players[((r.turn_index + k) % n) + 1].connected}
    IN  IF ahead = {} THEN r.turn_index
        ELSE (r.turn_index + CHOOSE k \in ahead : \A j \in ahead : k <= j) % n

Owed(r) == {r.last_round_remaining[i] : i \in 1..Len(r.last_round_remaining)}

\* one turn advancement for actor pid took room r to room o: in the last round
\* the actor is no longer owed a turn, and either that closed the game with the
\* turn index where it was, or the turn went to the next connected seat
TurnAdvanced(r, pid, o) ==
    IF r.state = LAST_ROUND /\ Owed(r) \ {pid} = {}
    THEN /\ o.state = ENDED
         /\ o.turn_index = r.turn_index
         /\ o.last_round_remaining = <<>>
    ELSE /\ o.state = r.state
         /\ o.turn_index = NextConnected(r)
         /\ Owed(o) = (IF r.state = LAST_ROUND THEN Owed(r) \ {pid} ELSE Owed(r))

\* how many places hold card c: deck, discard pile, hand slots, pending action
Holders(r, c) ==
    Cardinality({i \in 1..Len(r.deck) : r.deck[i] = c})
    + Cardinality({i \in 1..Len(r.discard_pile) : r.discard_pile[i] = c})
    + Cardinality({<<i, k>> \in (1..Len(r.players)) \X (1..GRID_SIZE) :
                      r.players[i].hand[k] = c})
    + (IF r.pending_special.type # "none" /\ r.pending_special.card = c
       THEN 1 ELSE 0)

-----------------------------------------------------------------------------
(* The claims *)

\* C1: draw requires pendingAction = None: in every reachable state where a
\* drawn card or a king peek is pending, a draw by the current player fails and
\* leaves the deck, the discard pile, the hands and the pending action unchanged.
C1_DrawRequiresNoPending ==
    \A pid \in PlayerIds :
        (IsCurrent(room, pid) /\ room.pending_special.type # "none") =>
            LET out == draw_card(room, pid, room.discard_pile)
            IN  /\ out.error # ""
                /\ out.room.deck = room.deck
                /\ out.room.discard_pile = room.discard_pile
                /\ Hands(out.room) = Hands(room)
                /\ out.room.pending_special = room.pending_special

\* C2: card conservation: once the game is started every card of the deck is
\* held by exactly one of the deck, the discard pile, one hand slot or the
\* pending action.
C2_CardConservation ==
    room.state # LOBBY => \A c \in AllCards : Holders(room, c) = 1

\* C3: a matching attemptDiscard by the current player empties the slot, clears
\* the pending action, puts the drawn card and the hand card on the discard pile
\* (it grows by exactly 2) and advances the turn exactly once.
C3_MatchingDiscard ==
    \A pid \in PlayerIds, position \in Positions :
        (/\ IsCurrent(room, pid)
         /\ room.pending_special.type = "drawn"
         /\ ValidSlot(position)
         /\ Slot(HandOf(room, pid), position) # NoCard
         /\ Slot(HandOf(room, pid), position).rank = room.pending_special.card.rank)
        =>
            LET out == attempt_discard(room, pid, position)
                o == out.room
            IN  /\ out.error = "" /\ out.success
                /\ Slot(HandOf(o, pid), position) = NoCard
                /\ o.pending_special = NoPending
                /\ Len(o.discard_pile) = Len(room.discard_pile) + 2
                /\ o.discard_pile = room.discard_pile \o
                       <<room.pending_special.card, Slot(HandOf(room, pid), position)>>
                /\ TurnAdvanced(room, pid, o)

\* C3 witness: a matching discard was the last intent accepted, and it left a hole
C3_Witness ==
    /\ LastAction(room) = "discard_success"
    /\ \E i \in 1..Len(room.players), k \in 1..GRID_SIZE :
          room.players[i].hand[k] = NoCard

\* C4: a non-matching attemptDiscard changes nothing but the action log: hands,
\* deck, discard pile, phase, turn index and the pending drawn card stay, the
\* current player is the same, the log gains one entry.
C4_NonMatchingDiscard ==
    \A pid \in PlayerIds, position \in Positions :
        (/\ IsCurrent(room, pid)
         /\ room.pending_special.type = "drawn"
         /\ ValidSlot(position)
         /\ Slot(HandOf(room, pid), position) # NoCard
         /\ Slot(HandOf(room, pid), position).rank # room.pending_special.card.rank)
        =>
            LET out == attempt_discard(room, pid, position)
                o == out.room
            IN  /\ out.error = "" /\ ~out.success
                /\ o.players = room.players
                /\ o.deck = room.deck
                /\ o.discard_pile = room.discard_pile
                /\ o.state = room.state
                /\ o.turn_index = room.turn_index
                /\ o.pending_special = room.pending_special
                /\ o.pending_special.type = "drawn"
                /\ IsCurrent(o, pid)
                /\ o.rikiki_called_by = room.rikiki_called_by
                /\ o.last_round_remaining = room.last_round_remaining
                /\ Len(o.action_log) = Len(room.action_log) + 1
                /\ SubSeq(o.action_log, 1, Len(room.action_log)) = room.action_log

\* C4 witness: a failed attempt was the last intent accepted and the card is
\* still pending with its drawer on turn
C4_Witness ==
    /\ LastAction(room) = "discard_fail"
    /\ room.pending_special.type = "drawn"
    /\ IsCurrent(room, room.pending_special.player_id)

\* C5: replace by the current player with a drawn card pending and an occupied
\* slot: the slot holds the drawn card, the displaced card is on top of the
\* discard pile, nothing is pending, every other slot of every hand is
\* unchanged, and the turn has advanced.
C5_Replace ==
    \A pid \in PlayerIds, position \in Positions :
        (/\ IsCurrent(room, pid)
         /\ room.pending_special.type = "drawn"
         /\ ValidSlot(position)
         /\ Slot(HandOf(room, pid), position) # NoCard)
        =>
            LET out == replace_card(room, pid, position)
                o == out.room
            IN  /\ out.error = ""
                /\ Slot(HandOf(o, pid), position) = room.pending_special.card
                /\ o.discard_pile # <<>>
                /\ Last(o.discard_pile) = Slot(HandOf(room, pid), position)
                /\ o.discard_pile =
                       Append(room.discard_pile, Slot(HandOf(room, pid), position))
                /\ o.pending_special = NoPending
                /\ Len(o.players) = Len(room.players)
                /\ \A i \in 1..Len(room.players), k \in 1..GRID_SIZE :
                      (i # SeatOf(room, pid) \/ k # position + 1) =>
                          o.players[i].hand[k] = room.players[i].hand[k]
                /\ TurnAdvanced(room, pid, o)

\* C5 witness: a replace was the last intent accepted and the discard pile
\* holds the displaced card
C5_Witness ==
    /\ LastAction(room) = "replace_card"
    /\ room.discard_pile # <<>>
    /\ room.pending_special = NoPending

\* C6: keep by the current player with a drawn card pending: the discard pile
\* grows by exactly the drawn card, on top; every hand keeps its slots and
\* their contents; nothing is pending; the turn advances.
C6_Keep ==
    \A pid \in PlayerIds :
        (IsCurrent(room, pid) /\ room.pending_special.type = "drawn") =>
            LET out == keep_card(room, pid)
                o == out.room
            IN  /\ out.error = ""
                /\ Len(o.discard_pile) = Len(room.discard_pile) + 1
                /\ Last(o.discard_pile) = room.pending_special.card
                /\ o.discard_pile = Append(room.discard_pile, room.pending_special.card)
                /\ Hands(o) = Hands(room)
                /\ \A i \in 1..Len(o.players) : Len(o.players[i].hand) = GRID_SIZE
                /\ o.pending_special = NoPending
                /\ TurnAdvanced(room, pid, o)

\* C6 witness: a keep was the last intent accepted
C6_Witness ==
    /\ LastAction(room) = "keep_card"
    /\ room.discard_pile # <<>>
    /\ room.pending_special = NoPending

\* what a call by pid may have been handed as the reshuffled discard pile
ShuffleChoices(r) == IF r.deck = <<>> THEN Shuffles(r.discard_pile) ELSE {<<>>}

\* what turn validation answers an intent sent by pid: the refusal, "" for none
Expected(r, pid) ==
    IF pid \notin SeatIds(r) THEN ErrPlayerNotFound
    ELSE IF ~InPlay(r) THEN ErrNotPlaying
    ELSE IF ~IsCurrent(r, pid) THEN ErrNotYourTurn
    ELSE ""

\* a call raised the refusal turn validation owes it, if it owes one
Refused(expected, error) == expected # "" => error = expected

\* C7: turn validation: every playable intent fails with PlayerNotFound when
\* the invoker has no seat, else with InvalidState when the phase is Lobby or
\* Ended, else with NotYourTurn when the invoker is not the seat at the turn
\* index; only the current player has an intent accepted.
C7_TurnValidation ==
    \A pid \in PlayerIds :
        LET e == Expected(room, pid)
        IN  /\ \A sh \in ShuffleChoices(room) : Refused(e, draw_card(room, pid, sh).error)
            /\ Refused(e, keep_card(room, pid).error)
            /\ Refused(e, call_rikiki(room, pid).error)
            /\ \A position \in Positions :
                  /\ Refused(e, attempt_discard(room, pid, position).error)
                  /\ Refused(e, replace_card(room, pid, position).error)
                  /\ \A target \in PlayerIds :
                        /\ Refused(e, use_jack(room, pid, target, position).error)
                        /\ Refused(e, use_king_peek(room, pid, target, position).error)
                        /\ Refused(e, use_king_swap(room, pid, target, position).error)
            /\ \A a \in PlayerIds, b \in PlayerIds :
                  \A pos_a \in QueenPositions, pos_b \in QueenPositions :
                      Refused(e, use_queen(room, pid, a, pos_a, b, pos_b).error)

\* C7 witness: a drawn card is pending and a seat that is not on turn, and an id
\* with no seat, are both refused the keep that the current player is granted
C7_Witness ==
    /\ room.pending_special.type = "drawn"
    /\ \E pid \in SeatIds(room) :
          ~IsCurrent(room, pid) /\ keep_card(room, pid).error = ErrNotYourTurn
    /\ \E pid \in PlayerIds \ SeatIds(room) :
          keep_card(room, pid).error = ErrPlayerNotFound
    /\ \E pid \in SeatIds(room) : keep_card(room, pid).error = ""

\* a call that failed left the whole room as it was
Atomic(r, out) == out.error = "" \/ out.room = r

\* C8: failure atomicity: whenever a room operation fails with a validation
\* error the whole room state is identical to the state before the call.
C8_FailureAtomicity ==
    /\ Atomic(room, start_game(room))
    /\ \A pid \in PlayerIds :
        /\ Atomic(room, add_player(room, pid))
        /\ \A sh \in ShuffleChoices(room) : Atomic(room, draw_card(room, pid, sh))
        /\ Atomic(room, keep_card(room, pid))
        /\ Atomic(room, call_rikiki(room, pid))
        /\ \A position \in Positions :
              /\ Atomic(room, attempt_discard(room, pid, position))
              /\ Atomic(room, replace_card(room, pid, position))
              /\ \A target \in PlayerIds :
                    /\ Atomic(room, use_jack(room, pid, target, position))
                    /\ Atomic(room, use_king_peek(room, pid, target, position))
                    /\ Atomic(room, use_king_swap(room, pid, target, position))
        /\ \A a \in PlayerIds, b \in PlayerIds :
              \A pos_a \in QueenPositions, pos_b \in QueenPositions :
                  Atomic(room, use_queen(room, pid, a, pos_a, b, pos_b))

\* C8 witness: a king peek is pending and the swap the peeker asks for is
\* refused, for the peeked player as target and for a position out of bounds
C8_Witness ==
    /\ room.pending_special.type = "king_peek"
    /\ IsCurrent(room, room.pending_special.player_id)
    /\ use_king_swap(room, room.pending_special.player_id,
                     room.pending_special.peeked_player_id, 0).error = ErrSameAsPeeked
    /\ \E other \in SeatIds(room) :
          use_king_swap(room, room.pending_special.player_id, other,
                        GRID_SIZE).error = ErrInvalidPosition

\* C9: callRikiki by the current player P in phase Playing sets the phase to
\* LastRound, records P as the caller, and owes a last turn to exactly the n-1
\* other seats, in seat order starting right after P; in phase LastRound it fails.
C9_CallRikiki ==
    \A pid \in PlayerIds :
        /\ (IsCurrent(room, pid) /\ room.state = PLAYING) =>
              LET out == call_rikiki(room, pid)
                  o == out.room
                  n == Len(room.players)
                  lrr == o.last_round_remaining
              IN  /\ out.error = ""
                  /\ o.state = LAST_ROUND
                  /\ o.rikiki_called_by = pid
                  /\ Len(lrr) = n - 1
                  /\ Owed(o) = SeatIds(room) \ {pid}
                  /\ pid \notin Owed(o)
                  /\ SeatOf(room, lrr[1]) = (SeatOf(room, pid) % n) + 1
                  /\ \A i \in 1..(n - 2) :
                        SeatOf(room, lrr[i + 1]) = (SeatOf(room, lrr[i]) % n) + 1
        /\ (IsCurrent(room, pid) /\ room.state = LAST_ROUND) =>
              /\ call_rikiki(room, pid).error = ErrCannotCall
              /\ call_rikiki(room, pid).room = room

\* C9 witness: in a room of three seats the second seat called and nobody has
\* played since: the third seat, then the first, are owed a turn
C9_Witness ==
    /\ LastAction(room) = "call_rikiki"
    /\ room.state = LAST_ROUND
    /\ Len(room.players) = 3
    /\ room.rikiki_called_by = room.players[2].id
    /\ room.last_round_remaining = <<room.players[3].id, room.players[1].id>>

\* C10: in every reachable state lastRoundRemaining is non-empty only if the
\* phase is LastRound, and the phase is LastRound only if it is non-empty.
C10_RemainingIffLastRound ==
    (room.last_round_remaining # <<>>) <=> (room.state = LAST_ROUND)

\* the player of the last intent the room accepted
LastActor(r) ==
    IF r.action_log = <<>> THEN NoId
    ELSE IF Last(r.action_log).action = "game_ended" /\ Len(r.action_log) > 1
    THEN r.action_log[Len(r.action_log) - 1].player_id
    ELSE Last(r.action_log).player_id

\* a call that completed a turn closed the game where the turn index stood
ClosedInPlace(r, out) ==
    (out.error = "" /\ out.success) =>
        /\ out.room.state = ENDED
        /\ out.room.turn_index = r.turn_index
        /\ out.room.last_round_remaining = <<>>

\* C11: the terminal action that removes the last id from lastRoundRemaining
\* sets the phase to Ended and leaves turnIndex at the value it had before
\* that action, whichever terminal action it is.
C11_EndingStep ==
    \A pid \in PlayerIds :
        (/\ IsCurrent(room, pid)
         /\ room.state = LAST_ROUND
         /\ Owed(room) = {pid})
        =>
            /\ ClosedInPlace(room, keep_card(room, pid))
            /\ \A position \in Positions :
                  /\ ClosedInPlace(room, attempt_discard(room, pid, position))
                  /\ ClosedInPlace(room, replace_card(room, pid, position))
                  /\ \A target \in PlayerIds :
                        /\ ClosedInPlace(room, use_jack(room, pid, target, position))
                        /\ ClosedInPlace(room, use_king_swap(room, pid, target, position))
                        /\ \A b \in PlayerIds, pos_b \in Positions :
                              ClosedInPlace(room, use_queen(room, pid, target, position,
                                                            b, pos_b))

\* C11 witness: the last seat owed a turn kept its card, which closed the game
\* with the turn index still on that seat
C11_Witness ==
    /\ room.state = ENDED
    /\ Last(room.action_log).action = "game_ended"
    /\ LastAction(room) = "keep_card"
    /\ CurrentId(room) = LastActor(room)
    /\ room.last_round_remaining = <<>>

\* the log actions that complete a turn
TerminalActions ==
    {"discard_success", "replace_card", "keep_card", "use_jack", "use_queen",
     "king_swap"}

\* the place of the last call_rikiki in the action log, 0 when there is none
LastCallAt(r) ==
    LET calls == {i \in 1..Len(r.action_log) : r.action_log[i].action = "call_rikiki"}
    IN  IF calls = {} THEN 0 ELSE CHOOSE i \in calls : \A j \in calls : j <= i

\* the turns pid has completed since the last call_rikiki
TurnsSinceCall(r, pid) ==
    Cardinality({i \in (LastCallAt(r) + 1)..Len(r.action_log) :
                    /\ r.action_log[i].player_id = pid
                    /\ r.action_log[i].action \in TerminalActions})

\* C12: between a callRikiki and the phase becoming Ended the caller completes
\* no turn and every other seat completes at most one; once the phase is
\* Ended every other seat has completed exactly one.
C12_OneLastTurnEach ==
    (room.state \in {LAST_ROUND, ENDED} /\ LastCallAt(room) > 0) =>
        \A pid \in SeatIds(room) :
            IF pid = room.rikiki_called_by
            THEN TurnsSinceCall(room, pid) = 0
            ELSE /\ TurnsSinceCall(room, pid) <= 1
                 /\ room.state = ENDED => TurnsSinceCall(room, pid) = 1

\* C13: after a callRikiki, as soon as every connected seat other than the
\* caller has completed one turn the phase is Ended: while the phase is
\* LastRound some connected seat other than the caller has not yet completed
\* its turn, also when other seats are disconnected.
C13_EndsWhenConnectedDone ==
    (room.state = LAST_ROUND /\ LastCallAt(room) > 0) =>
        \E i \in 1..Len(room.players) :
            /\ room.players[i].id # room.rikiki_called_by
            /\ room.players[i].connected
            /\ TurnsSinceCall(room, room.players[i].id) = 0

\* a call left what a closed room holds as it was
Frozen(r, out) ==
    LET o == out.room
    IN  /\ o.state = r.state
        /\ o.turn_index = r.turn_index
        /\ Hands(o) = Hands(r)
        /\ o.deck = r.deck
        /\ o.discard_pile = r.discard_pile
        /\ o.pending_special = r.pending_special
        /\ o.rikiki_called_by = r.rikiki_called_by
        /\ o.action_log = r.action_log

\* C14: once the phase is Ended no operation of the room (addPlayer,
\* startGame, any playable intent) changes the phase, the turn index, the
\* hands, the deck, the discard pile, the pending action, the rikiki caller or
\* the action log.
C14_EndedAbsorbing ==
    room.state = ENDED =>
        /\ Frozen(room, start_game(room))
        /\ \A pid \in PlayerIds :
            /\ Frozen(room, add_player(room, pid))
            /\ \A sh \in ShuffleChoices(room) : Frozen(room, draw_card(room, pid, sh))
            /\ Frozen(room, keep_card(room, pid))
            /\ Frozen(room, call_rikiki(room, pid))
            /\ \A position \in Positions :
                  /\ Frozen(room, attempt_discard(room, pid, position))
                  /\ Frozen(room, replace_card(room, pid, position))
                  /\ \A target \in PlayerIds :
                        /\ Frozen(room, use_jack(room, pid, target, position))
                        /\ Frozen(room, use_king_peek(room, pid, target, position))
                        /\ Frozen(room, use_king_swap(room, pid, target, position))
                        /\ \A b \in PlayerIds, pos_b \in Positions :
                              Frozen(room, use_queen(room, pid, target, position,
                                                     b, pos_b))

\* the ranks in rising order of face value
FaceOrder == <<"A", "2", "3", "4", "5", "6", "7", "8", "9", "10", "J", "Q", "K">>

\* what a slot counts: nothing when empty or a red king, else its face value,
\* the court cards counting 10
Points(c) ==
    IF c = NoCard \/ (c.rank = "K" /\ c.suit \in {"H", "D"}) THEN 0
    ELSE LET at == CHOOSE i \in 1..Len(FaceOrder) : FaceOrder[i] = c.rank
         IN  IF at > 10 THEN 10 ELSE at

HandPoints(hand) ==
    Points(hand[1]) + Points(hand[2]) + Points(hand[3]) + Points(hand[4])

\* C15: the endGame result: every score is the sum of the values of the
\* occupied slots (red King 0); callerAutoLose is true exactly when there is a
\* caller whose score is strictly greater than 7; the winner is the seat of
\* lowest score, among the non-callers if callerAutoLose and among all seats
\* otherwise, the earliest seat winning a tie.
C15_EndGameResult ==
    (room.state = ENDED /\ Last(room.action_log).action = "game_ended") =>
        LET res == Last(room.action_log).details
            n == Len(room.players)
            caller == room.rikiki_called_by
            pts == [i \in 1..n |-> HandPoints(room.players[i].hand)]
            lose == caller # NoId /\ pts[SeatOf(room, caller)] > 7
            among == IF lose THEN {i \in 1..n : room.players[i].id # caller}
                     ELSE 1..n
        IN  /\ res.caller_auto_lose = lose
            /\ res.caller_id = caller
            /\ \A i \in 1..n : res.scores[i].score = pts[i]
            /\ \E w \in among :
                  /\ res.winner_id = room.players[w].id
                  /\ \A j \in among : pts[w] <= pts[j]
                  /\ \A j \in among : j < w => pts[j] > pts[w]

\* C15 witness: the second of three seats called and holds exactly 7, which
\* does not lose; the first seat, also on 7, wins the tie
C15_Witness ==
    /\ room.state = ENDED
    /\ Len(room.players) = 3
    /\ room.rikiki_called_by = room.players[2].id
    /\ HandPoints(room.players[2].hand) = 7
    /\ HandPoints(room.players[1].hand) = 7
    /\ HandPoints(room.players[3].hand) > 7
    /\ ~Last(room.action_log).details.caller_auto_lose
    /\ Last(room.action_log).details.winner_id = room.players[1].id

\* C16: addPlayer in phase Lobby with an id that is already seated marks that
\* seat connected and adds no seat, in every lobby room, a room of 8 seats
\* included; with a new id it fails with RoomFull when there are 8 seats and
\* with InvalidState when the phase is not Lobby; the seat ids are pairwise
\* distinct and there are never more than 8 seats.
C16_AddPlayer ==
    /\ Len(room.players) <= 8
    /\ \A i, j \in 1..Len(room.players) :
          room.players[i].id = room.players[j].id => i = j
    /\ \A pid \in LobbyIds :
          LET out == add_player(room, pid)
              seated == \E i \in 1..Len(room.players) : room.players[i].id = pid
          IN  /\ (room.state = LOBBY /\ seated) =>
                    /\ out.error = ""
                    /\ Len(out.room.players) = Len(room.players)
                    /\ \A i \in 1..Len(room.players) :
                          /\ out.room.players[i].id = room.players[i].id
                          /\ out.room.players[i].connected =
                                (room.players[i].connected \/ room.players[i].id = pid)
              /\ (room.state = LOBBY /\ ~seated /\ Len(room.players) = 8) =>
                    out.error = ErrRoomFull
              /\ (room.state # LOBBY /\ ~seated) => out.error = ErrGameStarted
              /\ (room.state = LOBBY /\ ~seated /\ Len(room.players) < 8) =>
                    /\ out.error = ""
                    /\ Len(out.room.players) = Len(room.players) + 1

\* C17: startGame fails with InsufficientPlayers when the room has fewer than
\* 2 seats and changes nothing; otherwise the state it leaves has phase
\* Playing, turnIndex 0, no pending action, no rikiki caller, every called flag
\* false, an empty discard pile, and every player holding exactly 4 occupied
\* slots taken from the deck, which keeps the other cards (its size less 4n).
C17_StartGame ==
    LET out == start_game(room)
        o == out.room
        n == Len(room.players)
    IN  IF n < 2
        THEN out.error = ErrNeedPlayers /\ o = room
        ELSE /\ out.error = ""
             /\ o.state = PLAYING
             /\ o.turn_index = 0
             /\ o.pending_special = NoPending
             /\ o.rikiki_called_by = NoId
             /\ o.discard_pile = <<>>
             /\ Len(o.players) = n
             /\ \A i \in 1..n :
                   /\ o.players[i].id = room.players[i].id
                   /\ ~o.players[i].called_rikiki
                   /\ Len(o.players[i].hand) = 4
                   /\ \A k \in 1..4 : o.players[i].hand[k] # NoCard
             /\ Len(o.deck) = NumCards - 4 * n
             /\ \A c \in AllCards : Holders(o, c) = 1

\* C17 witness: a room of three seats in its last round, a card drawn, is
\* started again
C17_Witness ==
    /\ room.state = LAST_ROUND
    /\ room.pending_special.type = "drawn"
    /\ Len(room.players) = 3
    /\ \E i \in 1..3 : room.players[i].called_rikiki
    /\ start_game(room).room.state = PLAYING

\* hands h2 are hands h1 with slot p of seat a and slot q of seat b exchanged
\* and every other slot as it was
Exchanged(h1, h2, a, p, b, q) ==
    /\ h2[a][p + 1] = h1[b][q + 1]
    /\ h2[b][q + 1] = h1[a][p + 1]
    /\ \A i \in 1..Len(h1), k \in 1..GRID_SIZE :
          (<<i, k>> # <<a, p + 1>> /\ <<i, k>> # <<b, q + 1>>) => h2[i][k] = h1[i][k]

\* C18: the King protocol: with a drawn King pending, useKingPeek(T, p)
\* followed by useKingSwap(O, q) with O other than T exchanges slot p of T
\* and slot q of O whatever their ranks, leaves every other slot unchanged,
\* puts the King on top of the discard pile, clears the pending action and
\* advances the turn; useKingSwap with O = T fails with SameTargetNotAllowed;
\* useKingSwap without a prior peek fails with NoPendingAction.
C18_KingProtocol ==
    \A pid \in PlayerIds :
        IsCurrent(room, pid) =>
            /\ room.pending_special.type # "king_peek" =>
                  \A O \in PlayerIds, q \in Positions :
                      use_king_swap(room, pid, O, q).error = ErrMustPeek
            /\ (room.pending_special.type = "drawn"
                   /\ room.pending_special.card.rank = "K") =>
                  \A T \in SeatIds(room), p \in Positions :
                      ValidSlot(p) =>
                          LET peek == use_king_peek(room, pid, T, p)
                              king == room.pending_special.card
                          IN  /\ peek.error = ""
                              /\ Hands(peek.room) = Hands(room)
                              /\ peek.room.turn_index = room.turn_index
                              /\ peek.room.discard_pile = room.discard_pile
                              /\ use_king_swap(peek.room, pid, T, p).error = ErrSameAsPeeked
                              /\ \A O \in SeatIds(room) \ {T}, q \in Positions :
                                    ValidSlot(q) =>
                                        LET swap == use_king_swap(peek.room, pid, O, q)
                                            o == swap.room
                                        IN  /\ swap.error = ""
                                            /\ Exchanged(Hands(room), Hands(o),
                                                         SeatOf(room, T), p,
                                                         SeatOf(room, O), q)
                                            /\ o.discard_pile =
                                                  Append(room.discard_pile, king)
                                            /\ o.pending_special = NoPending
                                            /\ TurnAdvanced(room, pid, o)

\* C18 witness: a king swap was the last intent accepted: the King is on top
\* of the discard pile and nothing is pending
C18_Witness ==
    /\ LastAction(room) = "king_swap"
    /\ room.pending_special = NoPending
    /\ room.discard_pile # <<>>
    /\ Last(room.discard_pile).rank = "K"

\* C19: useQueen(A, posA, B, posB) succeeds only when a drawn Queen is pending
\* and A differs from B: it fails with NoPendingAction when no drawn card or a
\* drawn card of another rank is pending, and with SameTargetNotAllowed when
\* A = B; on success the contents of the two slots are exchanged (empty or
\* not), every other slot is unchanged, the Queen is on top of the discard
\* pile, nothing is pending and the turn has advanced.
C19_Queen ==
    \A pid \in PlayerIds :
        IsCurrent(room, pid) =>
            IF room.pending_special.type # "drawn"
            THEN \A A \in PlayerIds, B \in PlayerIds :
                    \A posA \in QueenPositions, posB \in QueenPositions :
                        use_queen(room, pid, A, posA, B, posB).error = ErrNoDrawn
            ELSE IF room.pending_special.card.rank # "Q"
            THEN \A A \in PlayerIds, B \in PlayerIds :
                    \A posA \in QueenPositions, posB \in QueenPositions :
                        use_queen(room, pid, A, posA, B, posB).error = ErrNotQueen
            ELSE \A A \in PlayerIds, B \in PlayerIds :
                    \A posA \in Positions, posB \in Positions :
                        LET out == use_queen(room, pid, A, posA, B, posB)
                            o == out.room
                        IN  /\ A = B => out.error = ErrSamePlayers
                            /\ (/\ A # B
                                /\ A \in SeatIds(room) /\ B \in SeatIds(room)
                                /\ ValidSlot(posA) /\ ValidSlot(posB))
                               =>
                                   /\ out.error = ""
                                   /\ Exchanged(Hands(room), Hands(o),
                                                SeatOf(room, A), posA,
                                                SeatOf(room, B), posB)
                                   /\ o.discard_pile =
                                         Append(room.discard_pile,
                                                room.pending_special.card)
                                   /\ o.pending_special = NoPending
                                   /\ TurnAdvanced(room, pid, o)

\* C19 witness: a drawn Queen is pending, a first slot is empty, and the swap
\* of that empty slot with another seat's first slot is accepted
C19_Witness ==
    /\ room.pending_special.type = "drawn"
    /\ room.pending_special.card.rank = "Q"
    /\ \E i, j \in 1..Len(room.players) :
          /\ i # j
          /\ room.players[i].hand[1] = NoCard
          /\ room.players[j].hand[1] # NoCard
          /\ use_queen(room, room.pending_special.player_id,
                       room.players[i].id, 0, room.players[j].id, 0).error = ""

\* C20: useJack(target, position) succeeds only when a drawn Jack is pending;
\* on success it returns the content of the targeted slot, leaves every hand
\* of every player unchanged, puts the Jack on top of the discard pile, clears
\* the pending action and advances the turn.
C20_Jack ==
    \A pid \in PlayerIds :
        IsCurrent(room, pid) =>
            \A target \in PlayerIds, position \in Positions :
                LET out == use_jack(room, pid, target, position)
                    o == out.room
                    ps == room.pending_special
                IN  /\ ps.type # "drawn" => out.error = ErrNoDrawn
                    /\ (ps.type = "drawn" /\ ps.card.rank # "J") =>
                          out.error = ErrNotJack
                    /\ (/\ ps.type = "drawn" /\ ps.card.rank = "J"
                        /\ target \in SeatIds(room)
                        /\ ValidSlot(position))
                       =>
                           /\ out.error = ""
                           /\ out.args[1] = Slot(HandOf(room, target), position)
                           /\ Hands(o) = Hands(room)
                           /\ o.discard_pile = Append(room.discard_pile, ps.card)
                           /\ o.pending_special = NoPending
                           /\ TurnAdvanced(room, pid, o)

\* C20 witness: a jack was the last intent accepted: the Jack is on top of the
\* discard pile, nothing is pending and every slot is still occupied
C20_Witness ==
    /\ LastAction(room) = "use_jack"
    /\ room.pending_special = NoPending
    /\ room.discard_pile # <<>>
    /\ Last(room.discard_pile).rank = "J"
    /\ \A i \in 1..Len(room.players), k \in 1..GRID_SIZE :
          room.players[i].hand[k] # NoCard

-----------------------------------------------------------------------------
\* the intents of the external protocol a joined client sends
ProtocolIntents ==
    {"start_game", "draw_card", "attempt_discard", "replace_card", "keep_card",
     "use_jack", "use_queen", "use_king_peek", "use_king_swap", "call_rikiki"}

\* C21: the transport routes every intent of the external protocol to a room
\* operation; in particular, after a failed attemptDiscard, a replace_card
\* message of the current player for an occupied slot is accepted and puts the
\* drawn card into that slot.
C21_ReplaceReachesRoom ==
    \A pid \in PlayerIds, position \in Positions :
        (/\ IsCurrent(room, pid)
         /\ LastAction(room) = "discard_fail"
         /\ room.pending_special.type = "drawn"
         /\ ValidSlot(position)
         /\ Slot(HandOf(room, pid), position) # NoCard)
        =>
            LET payload == Payload(position, pid, pid, 0, pid, 0) IN
            /\ \A intent \in ProtocolIntents :
                   handle_message(room, pid, intent, payload, <<>>).error
                       # ErrUnknownAction
            /\ LET out == handle_message(room, pid, "replace_card", payload, <<>>)
               IN  /\ out.error = ""
                   /\ Slot(HandOf(out.room, pid), position)
                          = room.pending_special.card

-----------------------------------------------------------------------------
\* the intent a step logged: the first entry the step added to the action log
StepAction ==
    IF Len(room'.action_log) > Len(room.action_log)
    THEN room'.action_log[Len(room.action_log) + 1].action
    ELSE ""

\* the log entries of the intents that resolve a pending action
ClearingActions ==
    {"discard_success", "replace_card", "keep_card", "use_jack", "use_queen",
     "king_swap"}

\* C22: the pending action changes in three ways only: from none to a drawn
\* card by a draw, from a drawn card to a king peek by useKingPeek, and to none
\* by a matching attemptDiscard, replace, keep, useJack, useQueen or
\* useKingSwap; every other step (a failed discard, callRikiki, a second draw,
\* startGame, a join, a disconnect) leaves it exactly as it was.
C22_PendingTransitions ==
    [][LET before == room.pending_special
           after == room'.pending_special
       IN  after # before =>
             \/ /\ before.type = "none"
                /\ after.type = "drawn"
                /\ StepAction = "draw_card"
             \/ /\ before.type = "drawn"
                /\ after.type = "king_peek"
                /\ StepAction = "king_peek"
             \/ /\ after.type = "none"
                /\ StepAction \in ClearingActions]_vars

-----------------------------------------------------------------------------
\* the turn advancement that would run now ends the game
AdvanceEnds(r) ==
    r.state = LAST_ROUND /\ Owed(r) \ {CurrentId(r)} = {}

\* the seat k places after the current one in cyclic seat order
SeatAhead(r, k) == r.players[((r.turn_index + k) % Len(r.players)) + 1]

-----------------------------------------------------------------------------
\* the player whose intent a step logged
StepActor ==
    IF Len(room'.action_log) > Len(room.action_log)
    THEN room'.action_log[Len(room.action_log) + 1].player_id
    ELSE NoId

\* the log entries of the intents other than useKingSwap
OtherIntentActions ==
    {"draw_card", "discard_success", "discard_fail", "replace_card", "keep_card",
     "use_jack", "use_queen", "king_peek", "call_rikiki"}

\* C24: while a king peek is pending the second step is mandatory: a step that
\* changes the turn index or the pending action is a successful useKingSwap of
\* the player who peeked, and no draw, attemptDiscard, replace, keep, useJack,
\* useQueen, useKingPeek or callRikiki is accepted.
C24_KingPeekMandatory ==
    [][room.pending_special.type = "king_peek" =>
          /\ (\/ room'.turn_index # room.turn_index
              \/ room'.pending_special # room.pending_special)
                 => /\ StepAction = "king_swap"
                    /\ StepActor = room.pending_special.player_id
          /\ StepAction \notin OtherIntentActions]_vars

-----------------------------------------------------------------------------
\* the number of occupied slots of a hand
Occupied(hand) == Cardinality({k \in 1..Len(hand) : hand[k] # NoCard})

\* an accepted call that took room r to out.room shrank no hand but the hand of
\* shrinker, and made no hand grow
HandsKept(r, out, shrinker) ==
    out.error = "" =>
        \A i \in 1..Len(r.players) :
            LET before == Occupied(r.players[i].hand)
                after == Occupied(out.room.players[i].hand)
            IN  /\ after <= before
                /\ after < before => r.players[i].id = shrinker

\* C25: once the game is started, whatever intent is accepted next, no hand
\* gains an occupied slot, and a hand loses one only in its own player's
\* matching attemptDiscard.
C25_OnlyDiscardShrinks ==
    room.state # LOBBY =>
        \A pid \in PlayerIds :
            /\ HandsKept(room, draw_card(room, pid, room.discard_pile), NoId)
            /\ HandsKept(room, keep_card(room, pid), NoId)
            /\ HandsKept(room, call_rikiki(room, pid), NoId)
            /\ \A position \in Positions :
                  /\ LET out == attempt_discard(room, pid, position)
                     IN  HandsKept(room, out, IF out.success THEN pid ELSE NoId)
                  /\ HandsKept(room, replace_card(room, pid, position), NoId)
                  /\ \A target \in PlayerIds :
                        /\ HandsKept(room, use_jack(room, pid, target, position), NoId)
                        /\ HandsKept(room, use_king_peek(room, pid, target, position),
                                     NoId)
                        /\ HandsKept(room, use_king_swap(room, pid, target, position),
                                     NoId)
            /\ \A a \in PlayerIds, b \in PlayerIds,
                  pos_a \in QueenPositions, pos_b \in QueenPositions :
                  HandsKept(room, use_queen(room, pid, a, pos_a, b, pos_b), NoId)

-----------------------------------------------------------------------------
\* the cards of a sequence, as a set
CardsOf(seq) == {seq[i] : i \in 1..Len(seq)}

\* how many draws the room has accepted
DrawsLogged(r) ==
    Cardinality({i \in 1..Len(r.action_log) : r.action_log[i].action = "draw_card"})

\* C26: a draw by the current player on an empty deck with k >= 1 cards in the
\* discard pile succeeds and leaves the discard pile empty, k-1 cards in the
\* deck and a drawn card pending that was in the discard pile; with the deck
\* and the discard pile both empty it fails with "No cards left" and changes
\* nothing; no draw advances the turn.
C26_DrawOnEmptyDeck ==
    \A pid \in PlayerIds :
        IsCurrent(room, pid) =>
            \A shuffled \in (IF room.deck = <<>> THEN Shuffles(room.discard_pile)
                             ELSE {<<>>}) :
                LET out == draw_card(room, pid, shuffled)
                    o == out.room
                    k == Len(room.discard_pile)
                IN  /\ (room.deck = <<>> /\ k >= 1) =>
                           /\ out.error = ""
                           /\ o.discard_pile = <<>>
                           /\ Len(o.deck) = k - 1
                           /\ o.pending_special.type = "drawn"
                           /\ o.pending_special.player_id = pid
                           /\ o.pending_special.card \in CardsOf(room.discard_pile)
                           /\ CardsOf(o.deck) \cup {o.pending_special.card}
                                 = CardsOf(room.discard_pile)
                    /\ (room.deck = <<>> /\ k = 0) =>
                           /\ out.error = ErrNoCards
                           /\ o = room
                    /\ o.turn_index = room.turn_index
                    /\ o.state = room.state

\* C26 witness: the deck of four cards was drawn out, and a fifth draw took its
\* card from a reshuffled discard pile of at least two cards
C26_Witness ==
    /\ DrawsLogged(room) = 5
    /\ LastAction(room) = "draw_card"
    /\ room.pending_special.type = "drawn"
    /\ room.discard_pile = <<>>
    /\ Len(room.deck) >= 1

-----------------------------------------------------------------------------
\* the last round is on, the caller's connection is gone and every seat still
\* owed a last turn is connected
CallerGone(r) ==
    /\ r.state = LAST_ROUND
    /\ SeatOf(r, r.rikiki_called_by) # 0
    /\ ~r.players[SeatOf(r, r.rikiki_called_by)].connected
    /\ \A i \in 1..Len(r.players) :
           r.players[i].id \in Owed(r) => r.players[i].connected

\* C27: a caller who disconnects does not block closure: when the current
\* player keeps completing its turns, a last round whose caller is disconnected
\* and whose owed seats are all connected leads to the phase Ended.
C27_CallerGoneStillCloses == CallerGone(room) ~> (room.state = ENDED)

-----------------------------------------------------------------------------
\* C28: when a room operation ends the game, every connected player is sent a
\* game_end message carrying the endGame result of that game, whatever other
\* connections' messages are handled while the ending handler is suspended:
\* once the handler of the player whose intent ended a game has returned, each
\* connected seat has been sent game_end with the details of that game_ended
\* log entry.
C28_GameEndDelivered ==
    \A i \in 2..Len(room.action_log) :
        (/\ room.action_log[i].action = "game_ended"
         /\ transport.handler[room.action_log[i - 1].player_id].pc = "idle")
        =>
            \A k \in 1..Len(room.players) :
                room.players[k].connected =>
                    [to |-> room.players[k].id,
                     data |-> <<room.action_log[i].details>>] \in transport.game_end

-----------------------------------------------------------------------------
\* C29: whenever an action is pending, the player it records is the current
\* player; hence an accepted attemptDiscard, replace, keep, useJack, useQueen
\* or useKingPeek resolves a card its own caller drew.
C29_PendingIsCurrent ==
    room.pending_special.type # "none" =>
        /\ room.pending_special.player_id = CurrentId(room)
        /\ \A pid \in PlayerIds, target \in PlayerIds, position \in Positions :
               (\/ attempt_discard(room, pid, position).error = ""
                \/ replace_card(room, pid, position).error = ""
                \/ keep_card(room, pid).error = ""
                \/ use_jack(room, pid, target, position).error = ""
                \/ use_king_peek(room, pid, target, position).error = ""
                \/ \E b \in PlayerIds, pos_b \in QueenPositions :
                       use_queen(room, pid, target, position, b, pos_b).error = "")
               => room.pending_special.player_id = pid

=============================================================================
